---------------------------- MODULE Spec2Model ----------------------------
(***************************************************************************)
(* FromTrax (trax/trax2keras.py): a Keras layer wrapping a Trax layer.     *)
(*                                                                         *)
(* The adapter object, its three groups of tf.Variable cells and its two   *)
(* methods build and call are modelled from trax2keras.py.  The wrapped    *)
(* Trax layer (trax.layers.base.Layer: weights, state, _rng, init,         *)
(* pure_fn, _set_rng_recursive) is a collaborator whose code is not part   *)
(* of trax2keras.py; it is modelled from its described contract.           *)
(***************************************************************************)
EXTENDS Integers, Sequences, FiniteSets, TLC

(* ------------------------------ bounds -------------------------------- *)

\* operations (build / call) performed on one adapter
MaxOps == 3
\* largest concrete batch dimension
MaxBatch == 1
\* number of distinct rng keys, 0 .. NumKeys - 1
NumKeys == 3
\* array elements are integers modulo Modulus
Modulus == 3

(* ------------------------------ values -------------------------------- *)

\* Python's None where an integer is optional (batch_size, a dimension, a key)
None == -1

\* Python's None where a name is optional (rng_updater, dtype)
NoneName == "None"

Adapters == {"a1", "a2"}

\* math_lib.random.get_prng(0)
PRNG0 == 0

BatchDims == {None} \cup (1 .. MaxBatch)

\* the non-batch dimensions of every shape of the model
FeatureDims == <<2>>

Vals == {0, 1}

\* base.EMPTY_WEIGHTS, the empty tuple
EMPTY_WEIGHTS == << >>

\* the shapes Keras hands to build
InputShapes ==
    {[type |-> "TensorShape", dims |-> <<b>> \o FeatureDims] : b \in BatchDims}

\* the tensors Keras hands to call
InputTensors ==
    {[type |-> "Tensor", shape |-> <<b>> \o FeatureDims, val |-> v] :
        b \in BatchDims, v \in Vals}

\* a key -> key function, by name
Updaters == {"identity", "next"}

ApplyUpdater(f, k) ==
    IF f = "next" THEN (k + 1) % NumKeys ELSE k

(* ------------------- module-level helpers of trax2keras ---------------- *)

\* a variant of _replace_none_batch that fixes shapes but not tensors
replace_none_batch_shapes_only(x, batch_size) ==
    IF batch_size = None THEN x
    ELSE IF x.type = "TensorShape" /\ x.dims[1] = None
         THEN [x EXCEPT !.dims = <<batch_size>> \o Tail(x.dims)]
    ELSE x

_replace_none_batch(x, batch_size) ==
    IF batch_size = None THEN x
    ELSE IF x.type = "Tensor" /\ x.shape[1] = None
         THEN [x EXCEPT !.shape = <<batch_size>> \o Tail(x.shape)]
    ELSE IF x.type = "TensorShape" /\ x.dims[1] = None
         THEN [x EXCEPT !.dims = <<batch_size>> \o Tail(x.dims)]
    ELSE x

\* ShapeDtype(s.as_list(), dtype)
tensor_shapes_to_shape_dtypes(s, dtype) ==
    [type |-> "ShapeDtype", shape |-> s.dims, dtype |-> dtype]

\* tf.Variable(value): a fresh cell holding the value
Variable(id, value, trainable) ==
    [type |-> "Variable", id |-> id, value |-> value, trainable |-> trainable]

\* v.read_value() on every cell of a nest: tensors
read_values(variables) ==
    [i \in DOMAIN variables |-> [type |-> "Tensor", val |-> variables[i].value]]

\* np.asarray: a tensor becomes an array of the same shape and content
asarray(t) == [t EXCEPT !.type = "ndarray"]

\* math_lib.nested_map(np.asarray, args) over a flat nest (a tuple of leaves)
to_arrays(nest) == [i \in DOMAIN nest |-> asarray(nest[i])]

\* tf.convert_to_tensor: an array becomes a tensor of the same shape and content
to_tensors(a) == [a EXCEPT !.type = "Tensor"]

\* v.assign(t): the same cell, holding the content of t
assign(v, t) == [v EXCEPT !.value = t.val]

(* --------------------------- the Trax layer ----------------------------- *)

BatchNum(shape) == IF shape[1] = None THEN 0 ELSE shape[1]

\* Layer._set_rng_recursive(rng)
_set_rng_recursive(layer, rng) == [layer EXCEPT !._rng = rng]

\* Layer.init(input_signature): weights and state drawn from the layer's key and
\* the signature; the layer's key moves on, and a caching layer keeps the result
init(layer, signature) ==
    LET k == layer._rng
        b == BatchNum(signature.shape)
        weights == IF layer.weightless THEN EMPTY_WEIGHTS
                   ELSE << 1 + k * (MaxBatch + 1) + b >>
        state == << b % Modulus, k % Modulus >>
        l1 == [layer EXCEPT !._rng = (k + 1) % NumKeys]
    IN  [weights |-> weights,
         state   |-> state,
         layer   |-> IF layer.caches
                     THEN [l1 EXCEPT !.weights = weights, !.state = state]
                     ELSE l1]

SumVals(nest) ==
    IF Len(nest) = 0 THEN 0
    ELSE IF Len(nest) = 1 THEN nest[1].val
    ELSE nest[1].val + nest[2].val

\* Layer.pure_fn(x, weights, state, rng): raises on an input whose shape has an
\* unknown dimension, and otherwise returns (outputs, new_state) without side effect
pure_fn(x, weights, state, rng) ==
    IF x.shape[1] = None
    THEN [ok |-> FALSE, error |-> "ValueError"]
    ELSE [ok |-> TRUE,
          outputs   |-> [type |-> "ndarray", shape |-> x.shape,
                         val |-> (x.val + SumVals(weights) + SumVals(state) + rng.val)
                                    % Modulus],
          new_state |-> << [type |-> "ndarray", val |-> (state[1].val + 1) % Modulus],
                           [type |-> "ndarray",
                            val |-> (state[2].val + x.val + rng.val + SumVals(weights))
                                       % Modulus] >>]

\* the Trax layers an adapter is wrapped around
UninitLayers(keys) ==
    {[weights |-> EMPTY_WEIGHTS, state |-> << >>, _rng |-> k,
      weightless |-> wl, caches |-> c] :
        k \in keys, wl \in BOOLEAN, c \in BOOLEAN}

InitializedLayers(keys) ==
    {[weights |-> <<2>>, state |-> <<0, 1>>, _rng |-> k,
      weightless |-> FALSE, caches |-> TRUE] : k \in keys}


(* ------------------------------ state --------------------------------- *)

VARIABLES
    ctor,        \* per adapter: what its constructor was given (args, trax_layer)
    self,        \* per adapter: the fields of the FromTrax object
    trax_layer,  \* per adapter: the wrapped Trax layer
    ret,         \* per adapter: how its last build / call ended
    log,         \* per adapter: the calls made on the wrapped layer, in order
    hist,        \* per adapter: the build / call operations so far, in order
    boxed,       \* per adapter: the weights and state its last build boxed
    nvars        \* per adapter: the tf.Variable objects created so far

vars == <<ctor, self, trax_layer, ret, log, hist, boxed, nvars>>

\* everything that belongs to adapter a, as one record
World(a) ==
    [self |-> self[a], layer |-> trax_layer[a], ret |-> ret[a], log |-> log[a],
     hist |-> hist[a], boxed |-> boxed[a], nvars |-> nvars[a]]

(* ----------------------------- FromTrax -------------------------------- *)

\* FromTrax.__init__
__init__(batch_size, initializer_rng, rng, rng_updater, dtype) ==
    [_batch_size       |-> batch_size,
     _initializer_rng  |-> IF initializer_rng = None THEN PRNG0 ELSE initializer_rng,
     _forward_rng_init |-> IF rng = None THEN PRNG0 ELSE rng,
     _rng_updater      |-> IF rng_updater = NoneName THEN "identity" ELSE rng_updater,
     dtype             |-> IF dtype = NoneName THEN "float32" ELSE dtype,
     built             |-> FALSE,
     _weights          |-> << >>,
     _state            |-> << >>,
     _rng              |-> << >>]

\* a variant of build_values that calls init with whatever key the layer holds
build_values_keeps_key(me, layer, input_shape) ==
    IF layer.weights = EMPTY_WEIGHTS
    THEN LET sanitized_input_shape == _replace_none_batch(input_shape, me._batch_size)
             signature == tensor_shapes_to_shape_dtypes(sanitized_input_shape, me.dtype)
             r == init(layer, signature)
         IN  [weights |-> r.weights, state |-> r.state, layer |-> r.layer,
              calls |-> << [call |-> "init", signature |-> signature] >>]
    ELSE [weights |-> layer.weights, state |-> layer.state, layer |-> layer,
          calls |-> << >>]

\* a variant of build_values that sets the layer's key on both branches
build_values_always_sets_key(me, layer, input_shape) ==
    LET l1 == _set_rng_recursive(layer, me._initializer_rng)
        set == [call |-> "_set_rng_recursive", rng |-> me._initializer_rng]
    IN  IF layer.weights = EMPTY_WEIGHTS
        THEN LET sanitized_input_shape == _replace_none_batch(input_shape, me._batch_size)
                 signature == tensor_shapes_to_shape_dtypes(sanitized_input_shape, me.dtype)
                 r == init(l1, signature)
             IN  [weights |-> r.weights, state |-> r.state, layer |-> r.layer,
                  calls |-> << set, [call |-> "init", signature |-> signature] >>]
        ELSE [weights |-> layer.weights, state |-> layer.state, layer |-> l1,
              calls |-> << set >>]

\* FromTrax.build, first half: the weights and state to box, the layer as build
\* leaves it, and the calls build makes on the layer
build_values(me, layer, input_shape) ==
    IF layer.weights = EMPTY_WEIGHTS
    THEN LET l1 == _set_rng_recursive(layer, me._initializer_rng)
             sanitized_input_shape == _replace_none_batch(input_shape, me._batch_size)
             signature == tensor_shapes_to_shape_dtypes(sanitized_input_shape, me.dtype)
             r == init(l1, signature)
         IN  [weights |-> r.weights, state |-> r.state, layer |-> r.layer,
              calls |-> << [call |-> "_set_rng_recursive", rng |-> me._initializer_rng],
                           [call |-> "init", signature |-> signature] >>]
    ELSE [weights |-> layer.weights, state |-> layer.state, layer |-> layer,
          calls |-> << >>]

\* a variant of build_cells that treats empty weights as a layer not ready to box
build_cells_rejects_empty(me, weights, state, n) ==
    IF weights = EMPTY_WEIGHTS THEN me
    ELSE [me EXCEPT
            !._weights = [i \in DOMAIN weights |-> Variable(n + i, weights[i], TRUE)],
            !._state   = [i \in DOMAIN state |->
                             Variable(n + Len(weights) + i, state[i], FALSE)],
            !._rng     = << Variable(n + Len(weights) + Len(state) + 1,
                                     me._forward_rng_init, FALSE) >>,
            !.built    = TRUE]

\* FromTrax.build, second half: three groups of fresh tf.Variable cells
build_cells(me, weights, state, n) ==
    [me EXCEPT
        !._weights = [i \in DOMAIN weights |-> Variable(n + i, weights[i], TRUE)],
        !._state   = [i \in DOMAIN state |->
                         Variable(n + Len(weights) + i, state[i], FALSE)],
        !._rng     = << Variable(n + Len(weights) + Len(state) + 1,
                                 me._forward_rng_init, FALSE) >>,
        !.built    = TRUE]

\* FromTrax.build
build(w, input_shape) ==
    LET v == build_values(w.self, w.layer, input_shape)
    IN  [self  |-> build_cells(w.self, v.weights, v.state, w.nvars),
         layer |-> v.layer,
         ret   |-> [op |-> "build", ok |-> TRUE],
         log   |-> w.log \o v.calls,
         hist  |-> Append(w.hist, [op |-> "build", arg |-> input_shape, ok |-> TRUE]),
         boxed |-> [weights |-> v.weights, state |-> v.state],
         nvars |-> w.nvars + Len(v.weights) + Len(v.state) + 1]

\* a variant of Raised for a call that wrote the rng cell before the forward pass
Raised_after_rng_write(w, inputs, error, calls) ==
    [w EXCEPT !.ret  = [op |-> "call", ok |-> FALSE, error |-> error],
              !.log  = w.log \o calls,
              !.hist = Append(w.hist, [op |-> "call", arg |-> inputs, ok |-> FALSE]),
              !.self._rng =
                  IF w.self.built
                  THEN << [w.self._rng[1] EXCEPT
                             !.value = ApplyUpdater(w.self._rng_updater, @)] >>
                  ELSE @]

\* how a call that raised leaves the adapter
Raised(w, inputs, error, calls) ==
    [w EXCEPT !.ret  = [op |-> "call", ok |-> FALSE, error |-> error],
              !.log  = w.log \o calls,
              !.hist = Append(w.hist, [op |-> "call", arg |-> inputs, ok |-> FALSE])]

\* a variant of call_writes that assigns only the first leaf of the state
call_writes_first_leaf(me, new_state, rng) ==
    [me EXCEPT
        !._state = [i \in DOMAIN me._state |->
                       IF i = 1 THEN assign(me._state[i], new_state[i]) ELSE me._state[i]],
        !._rng   = << assign(me._rng[1],
                            [type |-> "ndarray",
                             val |-> ApplyUpdater(me._rng_updater, rng.val)]) >>]

\* a variant of call_writes that also assigns the weights cells
call_writes_weights_too(me, new_state, rng) ==
    [me EXCEPT
        !._weights = [i \in DOMAIN me._weights |-> assign(me._weights[i], new_state[1])],
        !._state = [i \in DOMAIN me._state |-> assign(me._state[i], new_state[i])],
        !._rng   = << assign(me._rng[1],
                            [type |-> "ndarray",
                             val |-> ApplyUpdater(me._rng_updater, rng.val)]) >>]

\* a variant of call_writes that rebinds the state to new cells instead of assigning
call_writes_rebinds(me, new_state, rng) ==
    [me EXCEPT
        !._state = [i \in DOMAIN me._state |->
                       Variable(me._rng[1].id + i, new_state[i].val, FALSE)],
        !._rng   = << assign(me._rng[1],
                            [type |-> "ndarray",
                             val |-> ApplyUpdater(me._rng_updater, rng.val)]) >>]

\* a variant of call_writes that stores the key without updating it
call_writes_stale_key(me, new_state, rng) ==
    [me EXCEPT
        !._state = [i \in DOMAIN me._state |-> assign(me._state[i], new_state[i])],
        !._rng   = << assign(me._rng[1], rng) >>]

\* FromTrax.call, the two assignments that follow the forward pass: new_state
\* into the state cells, leaf by leaf, and the updated key into the rng cell
call_writes(me, new_state, rng) ==
    [me EXCEPT
        !._state = [i \in DOMAIN me._state |-> assign(me._state[i], new_state[i])],
        !._rng   = << assign(me._rng[1],
                            [type |-> "ndarray",
                             val |-> ApplyUpdater(me._rng_updater, rng.val)]) >>]

\* FromTrax.call
call(w, inputs) ==
    LET me == w.self
        x0 == _replace_none_batch(inputs, me._batch_size)
    IN  IF ~me.built
        THEN Raised(w, inputs, "AttributeError", << >>)
        ELSE
        LET weights == to_arrays(read_values(me._weights))
            state   == to_arrays(read_values(me._state))
            rng     == to_arrays(read_values(me._rng))[1]
            x       == asarray(x0)
            passed  == [call |-> "pure_fn", inputs |-> x, weights |-> weights,
                        state |-> state, rng |-> rng]
            r       == pure_fn(x, weights, state, rng)
        IN  IF ~r.ok
            THEN Raised(w, inputs, r.error, << passed >>)
            ELSE
            LET outputs == to_tensors(r.outputs)
            IN  [w EXCEPT
                    !.self = call_writes(me, r.new_state, rng),
                    !.ret  = [op |-> "call", ok |-> TRUE, outputs |-> outputs],
                    !.log  = Append(w.log, passed),
                    !.hist = Append(w.hist, [op |-> "call", arg |-> inputs, ok |-> TRUE,
                                             outputs |-> outputs])]

(* ----------------------------- behaviour ------------------------------- *)

\* the state in which every adapter b is as next[b] says
Becomes(next) ==
    /\ self'       = [b \in Adapters |-> next[b].self]
    /\ trax_layer' = [b \in Adapters |-> next[b].layer]
    /\ ret'        = [b \in Adapters |-> next[b].ret]
    /\ log'        = [b \in Adapters |-> next[b].log]
    /\ hist'       = [b \in Adapters |-> next[b].hist]
    /\ boxed'      = [b \in Adapters |-> next[b].boxed]
    /\ nvars'      = [b \in Adapters |-> next[b].nvars]
    /\ UNCHANGED ctor

CtorArgs ==
    [batch_size      : {None} \cup (1 .. MaxBatch),
     initializer_rng : {None, 1},
     rng             : {None, 1},
     rng_updater     : {NoneName, "next"},
     dtype           : {NoneName}]

Constructed(args, layers) ==
    /\ ctor = [a \in Adapters |-> [args |-> args, trax_layer |-> layers[a]]]
    /\ self = [a \in Adapters |->
                  __init__(args.batch_size, args.initializer_rng, args.rng,
                           args.rng_updater, args.dtype)]
    /\ trax_layer = layers
    /\ ret   = [a \in Adapters |-> [op |-> "__init__", ok |-> TRUE]]
    /\ log   = [a \in Adapters |-> << >>]
    /\ hist  = [a \in Adapters |-> << >>]
    /\ boxed = [a \in Adapters |-> [weights |-> << >>, state |-> << >>]]
    /\ nvars = [a \in Adapters |-> 0]

\* one adapter in use (a1); a2 is constructed the same way and left alone
Init ==
    \E args \in CtorArgs :
        \E l \in UninitLayers({1}) \cup InitializedLayers({1}) :
            Constructed(args, [a \in Adapters |-> l])

Build(a, input_shape) ==
    /\ Len(hist[a]) < MaxOps
    /\ Becomes([b \in Adapters |->
                   IF b = a THEN build(World(b), input_shape) ELSE World(b)])

Call(a, inputs) ==
    /\ Len(hist[a]) < MaxOps
    /\ Becomes([b \in Adapters |->
                   IF b = a THEN call(World(b), inputs) ELSE World(b)])

Next ==
    \/ \E s \in InputShapes : Build("a1", s)
    \/ \E x \in InputTensors : Call("a1", x)

Spec == Init /\ [][Next]_vars

\* two adapters given the same constructor arguments, around equivalent
\* uninitialized layers that hold different keys, driven in lock-step
InitPair ==
    \E args \in CtorArgs :
        \E l \in UninitLayers({0}) :
            Constructed(args, [a \in Adapters |->
                                  IF a = "a1" THEN l ELSE [l EXCEPT !._rng = 1]])

BuildBoth(input_shape) ==
    /\ \A a \in Adapters : Len(hist[a]) < MaxOps
    /\ Becomes([b \in Adapters |-> build(World(b), input_shape)])

CallBoth(inputs) ==
    /\ \A a \in Adapters : Len(hist[a]) < MaxOps
    /\ Becomes([b \in Adapters |-> call(World(b), inputs)])

NextPair ==
    \/ \E s \in InputShapes : BuildBoth(s)
    \/ \E x \in InputTensors : CallBoth(x)

SpecPair == InitPair /\ [][NextPair]_vars

(* ------------------------- reading the history ------------------------- *)

\* position of the last build in a history, 0 when there is none
LastBuildIdx(h) ==
    IF \E i \in DOMAIN h : h[i].op = "build"
    THEN CHOOSE i \in DOMAIN h :
            /\ h[i].op = "build"
            /\ \A j \in DOMAIN h : h[j].op = "build" => j <= i
    ELSE 0

IsOkCall(e) == e.op = "call" /\ e.ok

\* the successful calls since the last build, in order
OkCallsSince(h) == SelectSeq(SubSeq(h, LastBuildIdx(h) + 1, Len(h)), IsOkCall)

\* the calls (successful or not) since the last build
CallsSince(h) == SubSeq(h, LastBuildIdx(h) + 1, Len(h))

\* the values held by a nest of cells
CellValues(cells) == [i \in DOMAIN cells |-> cells[i].value]

\* the identities of a nest of cells
CellIds(cells) == [i \in DOMAIN cells |-> cells[i].id]

\* a nest of plain values as arrays
ArraysOf(values) == [i \in DOMAIN values |-> [type |-> "ndarray", val |-> values[i]]]

RECURSIVE IterUpdater(_, _, _)
\* f applied n times to key k
IterUpdater(f, k, n) ==
    IF n = 0 THEN k ELSE IterUpdater(f, ApplyUpdater(f, k), n - 1)

RECURSIVE RefFold(_, _, _, _, _)
\* the forward function folded over the inputs xs outside any adapter: fixed
\* weights, the state threaded through, the key stepping rng, f(rng), f(f(rng)), ...
RefFold(weights, state, rng, f, xs) ==
    IF Len(xs) = 0
    THEN [state |-> state, outputs |-> << >>]
    ELSE LET r == pure_fn(xs[1], weights, state, [type |-> "ndarray", val |-> rng])
             rest == RefFold(weights, r.new_state, ApplyUpdater(f, rng), f, Tail(xs))
         IN  [state |-> rest.state, outputs |-> << r.outputs >> \o rest.outputs]

\* the reference run for adapter a: from what its last build boxed, over the
\* inputs of its successful calls since, as the layer is to see them
RefRun(a) ==
    LET calls == OkCallsSince(hist[a])
        xs == [i \in DOMAIN calls |->
                  asarray(_replace_none_batch(calls[i].arg, self[a]._batch_size))]
    IN  RefFold(ArraysOf(boxed[a].weights), ArraysOf(boxed[a].state),
                self[a]._forward_rng_init, self[a]._rng_updater, xs)

(* ------------------------------ claims --------------------------------- *)

\* C1: state threading.  After a build followed by N successful calls, the state
\* cells hold the state the reference fold of the forward function reaches from the
\* state and weights boxed at build, with keys forwardKey, f(forwardKey), ..., and
\* the i-th call returned the i-th reference output.
C1_StateThreading ==
    \A a \in Adapters :
        self[a].built =>
            LET calls == OkCallsSince(hist[a])
                ref == RefRun(a)
            IN  /\ CellValues(self[a]._state) = [i \in DOMAIN ref.state |-> ref.state[i].val]
                /\ \A i \in DOMAIN calls : calls[i].outputs = to_tensors(ref.outputs[i])

C1_Witness ==
    /\ self["a1"].built
    /\ Len(OkCallsSince(hist["a1"])) >= 2
    /\ self["a1"]._rng_updater = "next"
    /\ CellValues(self["a1"]._state) # boxed["a1"].state

\* C2: weights immutability.  Once build has run, the weights cells hold what that
\* build boxed, whatever calls (successful or failing) have run since.
C2_WeightsImmutable ==
    \A a \in Adapters :
        self[a].built => CellValues(self[a]._weights) = boxed[a].weights

C2_Witness ==
    /\ self["a1"].built
    /\ Len(self["a1"]._weights) > 0
    /\ Len(OkCallsSince(hist["a1"])) >= 1
    /\ \E i \in DOMAIN CallsSince(hist["a1"]) : ~CallsSince(hist["a1"])[i].ok

\* C10: forward-key threading.  Build sets the rng cell to forwardKey (the seed-0
\* key when the constructor was given none); every call passes the rng cell's
\* current value to the forward function; after k successful calls since build the
\* rng cell holds f^k(forwardKey), which is forwardKey itself under the default
\* (identity) keyUpdateFunction.
C10_ForwardKeyThreading ==
    \A a \in Adapters :
        LET fk == IF ctor[a].args.rng = None THEN PRNG0 ELSE ctor[a].args.rng
            f  == self[a]._rng_updater
            k  == Len(OkCallsSince(hist[a]))
        IN  self[a].built =>
                /\ self[a]._rng[1].value = IterUpdater(f, fk, k)
                /\ ctor[a].args.rng_updater = NoneName => self[a]._rng[1].value = fk
                /\ ret[a].op = "call" =>
                      LET e == log[a][Len(log[a])]
                      IN  /\ e.call = "pure_fn"
                          /\ e.rng.val = IterUpdater(f, fk, IF ret[a].ok THEN k - 1 ELSE k)

C10_Witness ==
    /\ self["a1"].built
    /\ ctor["a1"].args.rng = None
    /\ self["a1"]._rng_updater = "next"
    /\ Len(OkCallsSince(hist["a1"])) = 2
    /\ self["a1"]._rng[1].value = 2

\* the last entry of a non-empty sequence
Last(q) == q[Len(q)]

\* adapter a performs an operation in this step
Acts(a) == Len(hist'[a]) = Len(hist[a]) + 1

\* the calls this step makes on a's wrapped layer
Added(a) == SubSeq(log'[a], Len(log[a]) + 1, Len(log'[a]))

IsSetKey(e) == e.call = "_set_rng_recursive"

\* how often a's layer has had its key set
SetKeyCount(a) == Len(SelectSeq(log[a], IsSetKey))

\* C3: build is idempotent.  A build that directly follows a build with the same
\* input shape leaves the weights cells and the state cells holding the values
\* the first build gave them, whatever the wrapped layer.
C3_BuildIdempotent ==
    [][\A a \in Adapters :
          ( /\ Acts(a)
            /\ Len(hist[a]) >= 1
            /\ Last(hist'[a]).op = "build"
            /\ Last(hist[a]).op = "build"
            /\ Last(hist'[a]).arg = Last(hist[a]).arg )
          => /\ CellValues(self'[a]._weights) = CellValues(self[a]._weights)
             /\ CellValues(self'[a]._state) = CellValues(self[a]._state)]_vars

C3_Witness ==
    /\ Len(hist["a1"]) = 2
    /\ hist["a1"][1].op = "build"
    /\ hist["a1"][2].op = "build"
    /\ hist["a1"][1].arg = hist["a1"][2].arg
    /\ ~ctor["a1"].trax_layer.caches
    /\ ~ctor["a1"].trax_layer.weightless
    /\ Len(log["a1"]) = 4

\* C4 as stated: once the cells exist the weights cells are never populated again,
\* and no cell of the three groups is ever replaced by another.
C4_PopulatedOnce ==
    [][\A a \in Adapters :
          self[a].built =>
             /\ self'[a]._weights = self[a]._weights
             /\ CellIds(self'[a]._state) = CellIds(self[a]._state)
             /\ CellIds(self'[a]._rng) = CellIds(self[a]._rng)]_vars

\* C4: storage-cell lifecycle.  Every build creates the three groups of cells
\* afresh (weights and state as boxed, rng at forwardKey); a call never creates a
\* cell and never writes a weights cell, it reads cells only once a build has made
\* them, and it reassigns the state and rng cells in place.
C4_Lifecycle ==
    [][\A a \in Adapters :
          Acts(a) =>
             IF Last(hist'[a]).op = "call"
             THEN /\ self'[a]._weights = self[a]._weights
                  /\ CellIds(self'[a]._state) = CellIds(self[a]._state)
                  /\ CellIds(self'[a]._rng) = CellIds(self[a]._rng)
                  /\ nvars'[a] = nvars[a]
                  /\ self'[a].built = self[a].built
                  /\ Last(hist'[a]).ok => self[a].built
             ELSE /\ self'[a].built
                  /\ \A i \in DOMAIN self'[a]._weights : self'[a]._weights[i].id > nvars[a]
                  /\ \A i \in DOMAIN self'[a]._state : self'[a]._state[i].id > nvars[a]
                  /\ self'[a]._rng[1].id > nvars[a]
                  /\ CellValues(self'[a]._weights) = boxed'[a].weights
                  /\ CellValues(self'[a]._state) = boxed'[a].state
                  /\ self'[a]._rng[1].value = self[a]._forward_rng_init]_vars

C4_Witness ==
    /\ Len(hist["a1"]) = 3
    /\ hist["a1"][1].op = "build"
    /\ IsOkCall(hist["a1"][2])
    /\ hist["a1"][3].op = "build"
    /\ self["a1"]._rng_updater = "next"
    /\ nvars["a1"] > Len(self["a1"]._weights) + Len(self["a1"]._state) + 1

\* C5: failure atomicity of call.  A call in which the forward function raises ends
\* with that error and leaves every field of the adapter, the weights, state and
\* rng cells among them, as it was.
C5_FailureAtomic ==
    [][\A a \in Adapters :
          (Acts(a) /\ ret'[a].op = "call" /\ ~ret'[a].ok) =>
             /\ self'[a] = self[a]
             /\ self[a].built =>
                   /\ Len(Added(a)) = 1
                   /\ LET e == Added(a)[1]
                          r == pure_fn(e.inputs, e.weights, e.state, e.rng)
                      IN  ~r.ok /\ ret'[a].error = r.error]_vars

C5_Witness ==
    /\ self["a1"].built
    /\ ret["a1"].op = "call"
    /\ ~ret["a1"].ok
    /\ Len(OkCallsSince(hist["a1"])) >= 1
    /\ self["a1"]._rng[1].value # self["a1"]._forward_rng_init
    /\ CellValues(self["a1"]._state) # boxed["a1"].state

\* C6: determinism.  Two adapters given the same constructor arguments around
\* equivalent uninitialized layers, built with the same shape and called with the
\* same inputs, return the same outputs and hold the same weights, state and rng
\* values after every operation, whatever key each layer held before build.
C6_Determinism ==
    /\ ret["a1"] = ret["a2"]
    /\ CellValues(self["a1"]._weights) = CellValues(self["a2"]._weights)
    /\ CellValues(self["a1"]._state) = CellValues(self["a2"]._state)
    /\ CellValues(self["a1"]._rng) = CellValues(self["a2"]._rng)

C6_Witness ==
    /\ ctor["a1"].trax_layer._rng # ctor["a2"].trax_layer._rng
    /\ self["a1"].built
    /\ self["a2"].built
    /\ Len(OkCallsSince(hist["a1"])) >= 2
    /\ ret["a2"].op = "call"
    /\ ret["a2"].ok

\* two outcomes of an operation that agree in everything but the recorded argument
SameOutcome(w1, w2) ==
    /\ w1.self = w2.self
    /\ w1.layer = w2.layer
    /\ w1.ret = w2.ret
    /\ w1.log = w2.log
    /\ w1.boxed = w2.boxed

C8_StatelessTolerated ==
    \A a \in Adapters :
        ctor[a].trax_layer.weightless =>
            /\ LastBuildIdx(hist[a]) > 0 =>
                  /\ self[a].built
                  /\ self[a]._weights = EMPTY_WEIGHTS
                  /\ trax_layer[a].weights = EMPTY_WEIGHTS
            /\ (LastBuildIdx(hist[a]) > 0 /\ ret[a].op = "call") =>
                  LET e == Last(log[a])
                  IN  /\ e.call = "pure_fn"
                      /\ e.weights = EMPTY_WEIGHTS
                      /\ LET r == pure_fn(e.inputs, e.weights, e.state, e.rng)
                         IN  /\ ret[a].ok = r.ok
                             /\ r.ok =>
                                   /\ ret[a].outputs = to_tensors(r.outputs)
                                   /\ CellValues(self[a]._state)
                                         = [i \in DOMAIN r.new_state |-> r.new_state[i].val]
                                   /\ self[a]._rng[1].value
                                         = ApplyUpdater(self[a]._rng_updater, e.rng.val)

C8_Witness ==
    /\ ctor["a1"].trax_layer.weightless
    /\ ctor["a1"].trax_layer.caches
    /\ self["a1"].built
    /\ self["a1"]._weights = EMPTY_WEIGHTS
    /\ Len(OkCallsSince(hist["a1"])) = 2
    /\ ret["a1"].op = "call"
    /\ ret["a1"].ok
    /\ self["a1"]._rng[1].value # self["a1"]._forward_rng_init

\* C9 as stated: over any sequence of operations the layer's key is set at most
\* once, and exactly once when a build has found the weights uninitialized.
C9_SetKeyExactlyOnce ==
    \A a \in Adapters :
        /\ SetKeyCount(a) <= 1
        /\ (ctor[a].trax_layer.weights = EMPTY_WEIGHTS /\ LastBuildIdx(hist[a]) > 0)
              => SetKeyCount(a) = 1

\* C9: key propagation into the wrapped layer.  Construction calls nothing on the
\* layer.  A build that finds the layer's weights uninitialized sets the layer's
\* key to initializerKey once and then calls init, and nothing else; a build that
\* finds weights present calls nothing on the layer, leaves it as it is and boxes
\* its weights and state; a call never sets the layer's key.
C9_KeyPropagation ==
    /\ \A a \in Adapters : log[a] = << >>
    /\ [][\A a \in Adapters :
            Acts(a) =>
               IF Last(hist'[a]).op = "build"
               THEN IF trax_layer[a].weights = EMPTY_WEIGHTS
                    THEN /\ Len(Added(a)) = 2
                         /\ Added(a)[1] = [call |-> "_set_rng_recursive",
                                           rng |-> IF ctor[a].args.initializer_rng = None
                                                   THEN PRNG0
                                                   ELSE ctor[a].args.initializer_rng]
                         /\ Added(a)[2].call = "init"
                    ELSE /\ Len(Added(a)) = 0
                         /\ trax_layer'[a] = trax_layer[a]
                         /\ boxed'[a] = [weights |-> trax_layer[a].weights,
                                         state |-> trax_layer[a].state]
               ELSE \A i \in DOMAIN Added(a) : ~IsSetKey(Added(a)[i])]_vars

C9_Witness ==
    /\ SetKeyCount("a1") = 2
    /\ Len(hist["a1"]) = 3
    /\ IsOkCall(hist["a1"][2])
    /\ ctor["a1"].trax_layer.weightless
    /\ ctor["a1"].trax_layer.caches

=============================================================================
